---------------------------- MODULE Spec2Model ----------------------------
(***************************************************************************)
(* The financial calculation tools of financial_tools_with_memory_agent.py *)
(* as a state machine: a caller invokes one of the five calculators with   *)
(* an argument mapping, the calculator runs to completion and leaves its   *)
(* outcome (a report, or the exception it raised), and the outcome is      *)
(* handed back before the next invocation.                                 *)
(*                                                                         *)
(* Numbers.  Python computes on binary64 floats.  The four basic           *)
(* operations are correctly rounded, so they are modelled bit for bit      *)
(* (the F... operators) wherever a calculator uses only them: the          *)
(* allocation amounts and the comparator's risk-adjusted scores.  The      *)
(* power x ** n of the growth formulas is not correctly rounded by the     *)
(* platform, so the calculators that use it are modelled on exact          *)
(* rationals (the R... operators).  Both rest on arbitrary-size naturals   *)
(* (the B... operators), kept as little-endian sequences of limbs.         *)
(***************************************************************************)
EXTENDS Integers, Sequences, FiniteSets, TLC

---------------------------------------------------------------------------
(* Arbitrary-size naturals: <<>> is 0, a[1] is the least significant limb, *)
(* the last limb is never 0.                                               *)

Limb == 64 * 64

Max(a, b) == IF a >= b THEN a ELSE b

Min(a, b) == IF a <= b THEN a ELSE b

(* The recursions over limbs split their range in halves, so that their   *)
(* depth is logarithmic in the length.                                     *)

(* The highest index in lo..hi whose limb is not 0, or 0. *)
RECURSIVE BTop(_, _, _)
BTop(a, lo, hi) ==
    IF lo > hi THEN 0
    ELSE IF lo = hi THEN (IF a[lo] # 0 THEN lo ELSE 0)
    ELSE LET mid == (lo + hi) \div 2
             h   == BTop(a, mid + 1, hi)
         IN  IF h # 0 THEN h ELSE BTop(a, lo, mid)

BNorm(a) == SubSeq(a, 1, BTop(a, 1, Len(a)))

RECURSIVE BFromInt(_)
BFromInt(n) ==
    IF n = 0 THEN <<>> ELSE <<n % Limb>> \o BFromInt(n \div Limb)

RECURSIVE BToInt(_)
BToInt(a) ==
    IF a = <<>> THEN 0 ELSE a[1] + Limb * BToInt(Tail(a))

(* Columns lo..hi of limb sums, differences or products, carried into      *)
(* limbs: the limbs d and the carry c out of column hi (-1 for a borrow).  *)
RECURSIVE BCarryRange(_, _, _, _)
BCarryRange(cols, lo, hi, c) ==
    IF lo > hi THEN [d |-> <<>>, c |-> c]
    ELSE IF lo = hi
    THEN [d |-> <<(cols[lo] + c) % Limb>>, c |-> (cols[lo] + c) \div Limb]
    ELSE LET mid  == (lo + hi) \div 2
             low  == BCarryRange(cols, lo, mid, c)
             high == BCarryRange(cols, mid + 1, hi, low.c)
         IN  [d |-> low.d \o high.d, c |-> high.c]

BCarry(cols) ==
    LET r == BCarryRange(cols, 1, Len(cols), 0) IN BNorm(r.d \o BFromInt(r.c))

BLimb(a, i) == IF i >= 1 /\ i <= Len(a) THEN a[i] ELSE 0

BAdd(a, b) ==
    BCarry([i \in 1..Max(Len(a), Len(b)) |-> BLimb(a, i) + BLimb(b, i)])

(* -1, 0 or 1 as limbs lo..hi of a and b compare, from the top. *)
RECURSIVE BCmpRange(_, _, _, _)
BCmpRange(a, b, lo, hi) ==
    IF lo > hi THEN 0
    ELSE IF lo = hi
    THEN (IF a[lo] > b[lo] THEN 1 ELSE IF a[lo] < b[lo] THEN -1 ELSE 0)
    ELSE LET mid == (lo + hi) \div 2
             h   == BCmpRange(a, b, mid + 1, hi)
         IN  IF h # 0 THEN h ELSE BCmpRange(a, b, lo, mid)

(* -1, 0 or 1 as a < b, a = b, a > b. *)
BCmp(a, b) ==
    IF Len(a) > Len(b) THEN 1
    ELSE IF Len(a) < Len(b) THEN -1
    ELSE BCmpRange(a, b, 1, Len(a))

(* a - b for a >= b. *)
BSub(a, b) == BCarry([i \in 1..Len(a) |-> a[i] - BLimb(b, i)])

(* a * k for a small natural k. *)
BMulSmall(a, k) == BCarry([i \in 1..Len(a) |-> a[i] * k])

(* The sum over i in lo..hi of a[i] * b[k - i + 1]. *)
RECURSIVE BColumn(_, _, _, _, _)
BColumn(a, b, k, lo, hi) ==
    IF lo > hi THEN 0
    ELSE IF lo = hi THEN a[lo] * b[k - lo + 1]
    ELSE LET mid == (lo + hi) \div 2
         IN  BColumn(a, b, k, lo, mid) + BColumn(a, b, k, mid + 1, hi)

BMul(a, b) ==
    IF a = <<>> \/ b = <<>> THEN <<>>
    ELSE BCarry([k \in 1..(Len(a) + Len(b) - 1) |->
                    BColumn(a, b, k, Max(1, k - Len(b) + 1), Min(k, Len(a)))])

(* Quotient limbs lo..hi and remainder of a by a small positive k, r being *)
(* the remainder that comes down from the limbs above hi.                  *)
RECURSIVE BDivRange(_, _, _, _, _)
BDivRange(a, k, lo, hi, r) ==
    IF lo > hi THEN [q |-> <<>>, r |-> r]
    ELSE IF lo = hi
    THEN [q |-> <<(r * Limb + a[lo]) \div k>>, r |-> (r * Limb + a[lo]) % k]
    ELSE LET mid  == (lo + hi) \div 2
             high == BDivRange(a, k, mid + 1, hi, r)
             low  == BDivRange(a, k, lo, mid, high.r)
         IN  [q |-> low.q \o high.q, r |-> low.r]

BDivSmall(a, k) ==
    LET d == BDivRange(a, k, 1, Len(a), 0) IN [q |-> BNorm(d.q), r |-> d.r]

BIsEven(a) == a = <<>> \/ a[1] % 2 = 0

RECURSIVE IntBitLen(_)
IntBitLen(n) == IF n = 0 THEN 0 ELSE 1 + IntBitLen(n \div 2)

BBitLen(a) ==
    IF a = <<>> THEN 0 ELSE 12 * (Len(a) - 1) + IntBitLen(a[Len(a)])

(* a * 2^n and floor(a / 2^n). *)
BShl(a, n) ==
    IF a = <<>> THEN <<>>
    ELSE [i \in 1..(n \div 12) |-> 0] \o BMulSmall(a, 2 ^ (n % 12))

BShr(a, n) ==
    IF n \div 12 >= Len(a) THEN <<>>
    ELSE BDivSmall(SubSeq(a, (n \div 12) + 1, Len(a)), 2 ^ (n % 12)).q

(* a mod 2^n. *)
BLowBits(a, n) == BSub(a, BShl(BShr(a, n), n))

---------------------------------------------------------------------------
(* binary64 floats: the value (-1)^neg * m * 2^e with m a natural of at    *)
(* most 53 bits, kept odd (or <<>> for a zero, which keeps its sign).  The *)
(* exponent range is not modelled: no value of the calculators modelled on *)
(* floats comes near the overflow or subnormal range.                      *)

RECURSIVE FCanon(_, _, _)
FCanon(neg, m, e) ==
    IF m = <<>> THEN [neg |-> neg, m |-> <<>>, e |-> 0]
    ELSE IF m[1] = 0 THEN FCanon(neg, Tail(m), e + 12)
    ELSE IF m[1] % 2 = 0 THEN FCanon(neg, BShr(m, 1), e + 1)
    ELSE [neg |-> neg, m |-> m, e |-> e]

(* Round to nearest, ties to even: the float nearest to m * 2^e, where     *)
(* sticky says that the exact value lies strictly above m * 2^e (and below *)
(* (m + 1) * 2^e).                                                         *)
FRound(neg, m, e, sticky) ==
    LET len == BBitLen(m) IN
    IF len <= 53 THEN FCanon(neg, m, e)
    ELSE LET k    == len - 53
             q    == BShr(m, k)
             c    == BCmp(BLowBits(m, k), BShl(<<1>>, k - 1))
             up   == c = 1 \/ (c = 0 /\ (sticky \/ ~BIsEven(q)))
         IN  FCanon(neg, IF up THEN BAdd(q, <<1>>) ELSE q, e + k)

Abs(n) == IF n < 0 THEN -n ELSE n

(* The float of a Python int (exact below 2^53). *)
FFromInt(n) == FCanon(n < 0, BFromInt(Abs(n)), 0)

FIsZero(x) == x.m = <<>>

FNeg(x) == [x EXCEPT !.neg = ~x.neg]

(* x / d for a nonzero integer d of small magnitude: the quotient of the   *)
(* mantissa scaled by 2^72 carries at least 55 bits, so FRound sees the    *)
(* rounding bit and the remainder is the sticky bit.                       *)
FDivInt(x, d) ==
    IF FIsZero(x) THEN [neg |-> (x.neg # (d < 0)), m |-> <<>>, e |-> 0]
    ELSE LET qr == BDivSmall(BShl(x.m, 72), Abs(d))
         IN  FRound(x.neg # (d < 0), qr.q, x.e - 72, qr.r # 0)

FMul(x, y) == FRound(x.neg # y.neg, BMul(x.m, y.m), x.e + y.e, FALSE)

(* The exact sum of two floats, as an unrounded m * 2^e. *)
DAdd(x, y) ==
    LET e  == Min(x.e, y.e)
        mx == BShl(x.m, x.e - e)
        my == BShl(y.m, y.e - e)
        c  == BCmp(mx, my)
    IN  IF x.neg = y.neg THEN [neg |-> x.neg, m |-> BAdd(mx, my), e |-> e]
        ELSE IF c = 0 THEN [neg |-> FALSE, m |-> <<>>, e |-> 0]
        ELSE IF c = 1 THEN [neg |-> x.neg, m |-> BSub(mx, my), e |-> e]
        ELSE [neg |-> y.neg, m |-> BSub(my, mx), e |-> e]

FAdd(x, y) ==
    IF FIsZero(x) /\ FIsZero(y) THEN [neg |-> x.neg /\ y.neg, m |-> <<>>, e |-> 0]
    ELSE LET d == DAdd(x, y) IN FRound(d.neg, d.m, d.e, FALSE)

FSub(x, y) == FAdd(x, FNeg(y))

(* -1, 0 or 1 as x < y, x = y, x > y (the two zeros are equal). *)
FCmp(x, y) ==
    LET d == DAdd(x, FNeg(y)) IN
    IF d.m = <<>> THEN 0 ELSE IF d.neg THEN -1 ELSE 1

FEq(x, y) == FCmp(x, y) = 0

FGt(x, y) == FCmp(x, y) = 1

(* The float a decimal literal n/d denotes (n an integer, d a power of     *)
(* ten): the correctly rounded quotient.                                   *)
FLit(n, d) == FDivInt(FFromInt(n), d)

(* format(x, ",.2f") as a signed number of cents: the exact binary value   *)
(* times 100, rounded half to even.                                        *)
Fmt2(x) ==
    LET n == BMulSmall(x.m, 100)
        k == -x.e
        q == BShr(n, k)
        c == BCmp(BLowBits(n, k), BShl(<<1>>, k - 1))
        cents == IF x.e >= 0 THEN BShl(n, x.e)
                 ELSE IF c = 1 \/ (c = 0 /\ ~BIsEven(q)) THEN BAdd(q, <<1>>)
                 ELSE q
    IN  IF x.neg THEN -BToInt(cents) ELSE BToInt(cents)

---------------------------------------------------------------------------
(* Exact rationals (-1)^neg * num / den, den > 0, not reduced. *)

RInt(n) == [neg |-> n < 0, num |-> BFromInt(Abs(n)), den |-> <<1>>]

RFrac(n, d) == [neg |-> n < 0, num |-> BFromInt(Abs(n)), den |-> BFromInt(d)]

RIsZero(x) == x.num = <<>>

RNeg(x) == IF RIsZero(x) THEN x ELSE [x EXCEPT !.neg = ~x.neg]

RAdd(x, y) ==
    LET same == x.den = y.den
        nx   == IF same THEN x.num ELSE BMul(x.num, y.den)
        ny   == IF same THEN y.num ELSE BMul(y.num, x.den)
        den  == IF same THEN x.den ELSE BMul(x.den, y.den)
        c    == BCmp(nx, ny)
    IN  IF x.neg = y.neg
        THEN [neg |-> x.neg /\ BAdd(nx, ny) # <<>>, num |-> BAdd(nx, ny), den |-> den]
        ELSE IF c = 0 THEN [neg |-> FALSE, num |-> <<>>, den |-> den]
        ELSE IF c = 1 THEN [neg |-> x.neg, num |-> BSub(nx, ny), den |-> den]
        ELSE [neg |-> y.neg, num |-> BSub(ny, nx), den |-> den]

RSub(x, y) == RAdd(x, RNeg(y))

RMul(x, y) ==
    IF RIsZero(x) \/ RIsZero(y) THEN [neg |-> FALSE, num |-> <<>>, den |-> <<1>>]
    ELSE [neg |-> x.neg # y.neg, num |-> BMul(x.num, y.num), den |-> BMul(x.den, y.den)]

(* x / y for y # 0 (the callers test for zero first: Python raises there). *)
RDiv(x, y) ==
    IF RIsZero(x) THEN [neg |-> FALSE, num |-> <<>>, den |-> <<1>>]
    ELSE [neg |-> x.neg # y.neg, num |-> BMul(x.num, y.den), den |-> BMul(x.den, y.num)]

(* x ** n for an integer n (x # 0 when n < 0). *)
RECURSIVE RPow(_, _)
RPow(x, n) ==
    IF n = 0 THEN RInt(1)
    ELSE IF n < 0 THEN RDiv(RInt(1), RPow(x, -n))
    ELSE IF n = 1 THEN x
    ELSE LET h == RPow(x, n \div 2)
         IN  IF n % 2 = 0 THEN RMul(h, h) ELSE RMul(RMul(h, h), x)

(* -1, 0 or 1 as x < y, x = y, x > y. *)
RCmp(x, y) ==
    LET sx == IF RIsZero(x) THEN 0 ELSE IF x.neg THEN -1 ELSE 1
        sy == IF RIsZero(y) THEN 0 ELSE IF y.neg THEN -1 ELSE 1
    IN  IF sx # sy THEN (IF sx < sy THEN -1 ELSE 1)
        ELSE sx * BCmp(BMul(x.num, y.den), BMul(y.num, x.den))

REq(x, y) == RCmp(x, y) = 0

RGt(x, y) == RCmp(x, y) = 1

---------------------------------------------------------------------------
(* A number of an argument mapping is the decimal the caller wrote, n / d  *)
(* with d a power of ten.  A calculator modelled on floats reads its       *)
(* float, one modelled on rationals its exact value.                       *)

Dec(n, d) == [n |-> n, d |-> d]

Float(x) == FLit(x.n, x.d)

Real(x) == RFrac(x.n, x.d)

---------------------------------------------------------------------------
(* Strings are sequences of one-character strings, so that str.lower(),    *)
(* str.upper() and str.title() are computed character by character.        *)

Uppers == <<"A", "B", "C", "D", "E", "F", "G", "H", "I", "J", "K", "L", "M",
            "N", "O", "P", "Q", "R", "S", "T", "U", "V", "W", "X", "Y", "Z">>

Lowers == <<"a", "b", "c", "d", "e", "f", "g", "h", "i", "j", "k", "l", "m",
            "n", "o", "p", "q", "r", "s", "t", "u", "v", "w", "x", "y", "z">>

IndexIn(c, letters) ==
    IF \E i \in 1..Len(letters) : letters[i] = c
    THEN CHOOSE i \in 1..Len(letters) : letters[i] = c
    ELSE 0

LowerChar(c) == IF IndexIn(c, Uppers) > 0 THEN Lowers[IndexIn(c, Uppers)] ELSE c

UpperChar(c) == IF IndexIn(c, Lowers) > 0 THEN Uppers[IndexIn(c, Lowers)] ELSE c

IsLetter(c) == IndexIn(c, Uppers) > 0 \/ IndexIn(c, Lowers) > 0

lower(s) == [i \in 1..Len(s) |-> LowerChar(s[i])]

upper(s) == [i \in 1..Len(s) |-> UpperChar(s[i])]

title(s) ==
    [i \in 1..Len(s) |->
        IF i = 1 \/ ~IsLetter(s[Max(1, i - 1)]) THEN UpperChar(s[i]) ELSE LowerChar(s[i])]

Str(word) ==
    CASE word = "conservative" -> <<"c","o","n","s","e","r","v","a","t","i","v","e">>
      [] word = "Conservative" -> <<"C","o","n","s","e","r","v","a","t","i","v","e">>
      [] word = "aggressive"   -> <<"a","g","g","r","e","s","s","i","v","e">>
      [] word = "AGGRESSIVE"   -> <<"A","G","G","R","E","S","S","I","V","E">>
      [] word = "moderate"     -> <<"m","o","d","e","r","a","t","e">>
      [] word = "balanced"     -> <<"b","a","l","a","n","c","e","d">>
      [] word = "low"          -> <<"l","o","w">>
      [] word = "Low"          -> <<"L","o","w">>
      [] word = "medium"       -> <<"m","e","d","i","u","m">>
      [] word = "Medium"       -> <<"M","e","d","i","u","m">>
      [] word = "high"         -> <<"h","i","g","h">>
      [] word = "HIGH"         -> <<"H","I","G","H">>
      [] word = "extreme"      -> <<"e","x","t","r","e","m","e">>
      [] word = "A"            -> <<"A">>
      [] word = "B"            -> <<"B">>
      [] word = "a" ->
            <<"a">>
      [] word = "b" ->
            <<"b">>
      [] word = "limit" ->
            <<"l","i","m","i","t">>
      [] word = "boom" ->
            <<"b","o","o","m">>
      [] word = "{" ->
            <<"{">>
      [] word = "Error" ->
            <<"E","r","r","o","r">>
      [] word = "Error: " ->
            <<"E","r","r","o","r",":"," ">>
      [] word = "Unknown error" ->
            <<"U","n","k","n","o","w","n"," ","e","r","r","o","r">>
      [] word = "Error during conversation: " ->
            <<"E","r","r","o","r"," ","d","u","r","i","n","g"," ","c","o","n","v","e","r","s","a","t","i","o","n",":"," ">>
      [] word = "Error occurred: " ->
            <<"E","r","r","o","r"," ","o","c","c","u","r","r","e","d",":"," ">>
      [] word = "Error: Claude Code CLI not found. Please install it with: npm install -g @anthropic-ai/claude-code" ->
            <<"E","r","r","o","r",":"," ","C","l","a","u","d","e"," ","C","o","d","e"," ","C","L","I"," ","n","o","t"," ","f","o","u","n","d","."," ","P","l","e","a","s","e"," ","i","n","s","t","a","l","l"," ","i","t"," ","w","i","t","h",":"," ","n","p","m"," ","i","n","s","t","a","l","l"," ","-","g"," ","@","a","n","t","h","r","o","p","i","c","-","a","i","/","c","l","a","u","d","e","-","c","o","d","e">>
      [] word = "Process error: " ->
            <<"P","r","o","c","e","s","s"," ","e","r","r","o","r",":"," ">>
      [] word = " - " ->
            <<" ","-"," ">>
      [] word = "Failed to parse response: " ->
            <<"F","a","i","l","e","d"," ","t","o"," ","p","a","r","s","e"," ","r","e","s","p","o","n","s","e",":"," ">>
      [] word = "Unexpected error: " ->
            <<"U","n","e","x","p","e","c","t","e","d"," ","e","r","r","o","r",":"," ">>

---------------------------------------------------------------------------
(* Outcomes of an invocation. *)

Report(r) == [kind |-> "report", report |-> r]

Raise(exc, line) == [kind |-> "raise", exc |-> exc, line |-> line]

---------------------------------------------------------------------------
(* calculate_portfolio_allocation *)

(* A slip: the floor of 20 and the cap of 90 applied to every risk level. *)
stock_pct_clamped(age, risk) ==
    LET base_stock_pct == 100 - age IN
    IF risk = Str("conservative") THEN Max(20, base_stock_pct - 15)
    ELSE IF risk = Str("aggressive") THEN Min(90, base_stock_pct + 15)
    ELSE Max(20, Min(90, base_stock_pct))

(* The risk adjustment of the "100 minus age" rule. *)
stock_pct(age, risk) ==
    LET base_stock_pct == 100 - age IN
    IF risk = Str("conservative") THEN Max(20, base_stock_pct - 15)
    ELSE IF risk = Str("aggressive") THEN Min(90, base_stock_pct + 15)
    ELSE base_stock_pct

bond_pct(age, risk) == 100 - stock_pct(age, risk)

(* A slip: pct // 100, the floor division, for pct / 100. *)
pct_amount_floordiv(total, pct) == FMul(total, FFromInt(pct \div 100))

(* total * (pct / 100): the int division and the product, each rounded. *)
pct_amount(total, pct) == FMul(total, FDivInt(FFromInt(pct), 100))

calculate_portfolio_allocation(a) ==
    LET age   == a.age
        risk  == lower(a.risk_tolerance)
        total == Float(a.total_amount)
        sp    == stock_pct(age, risk)
        bp    == bond_pct(age, risk)
        stock_amount == pct_amount(total, sp)
        bond_amount  == pct_amount(total, bp)
    IN  Report([age            |-> age,
                risk_tolerance |-> title(risk),
                total          |-> Fmt2(total),
                stock_pct      |-> sp,
                bond_pct       |-> bp,
                stock_amount   |-> stock_amount,
                bond_amount    |-> bond_amount,
                stocks         |-> Fmt2(stock_amount),
                bonds          |-> Fmt2(bond_amount),
                index_funds    |-> Fmt2(FMul(stock_amount, FLit(7, 10))),
                international  |-> Fmt2(FMul(stock_amount, FLit(2, 10))),
                individual     |-> Fmt2(FMul(stock_amount, FLit(1, 10))),
                government     |-> Fmt2(FMul(bond_amount, FLit(6, 10))),
                corporate      |-> Fmt2(FMul(bond_amount, FLit(4, 10)))])

---------------------------------------------------------------------------
(* calculate_compound_interest *)

(* A slip: the stop taken one too low, range(step, years, step). *)
RECURSIVE range_exclusive(_, _, _)
range_exclusive(start, stop, step) ==
    IF start >= stop - 1 THEN <<>>
    ELSE <<start>> \o range_exclusive(start + step, stop, step)

(* range(step, years + 1, step) *)
RECURSIVE range(_, _, _)
range(start, stop, step) ==
    IF start >= stop THEN <<>> ELSE <<start>> \o range(start + step, stop, step)

(* principal * ((1 + monthly_rate) ** months) *)
future_value_lump(principal, monthly_rate, months) ==
    RMul(principal, RPow(RAdd(RInt(1), monthly_rate), months))

(* The annuity formula as the source writes it, for monthly_rate # 0:      *)
(* monthly_contrib * (((1 + monthly_rate) ** months - 1) / monthly_rate),  *)
(* and 0 when there is no contribution.                                    *)
future_value_annuity(monthly_contrib, monthly_rate, months) ==
    IF RGt(monthly_contrib, RInt(0))
    THEN RMul(monthly_contrib,
              RDiv(RSub(RPow(RAdd(RInt(1), monthly_rate), months), RInt(1)),
                   monthly_rate))
    ELSE RInt(0)

(* Whether the annuity formula divides by zero. *)
annuity_divides_by_zero(monthly_contrib, monthly_rate) ==
    RGt(monthly_contrib, RInt(0)) /\ RIsZero(monthly_rate)

(* Whether x ** n raises ZeroDivisionError (0.0 to a negative power). *)
pow_divides_by_zero(x, n) == RIsZero(x) /\ n < 0

(* The line at which the calculator raises ZeroDivisionError for the       *)
(* mapping a, or 0 when it runs to its return.                             *)
growth_raises_at(a) ==
    LET principal       == Real(a.principal)
        monthly_contrib == Real(a.monthly_contribution)
        monthly_rate    == RDiv(RDiv(Real(a.annual_rate), RInt(100)), RInt(12))
        months          == a.years * 12
        total_invested  == RAdd(principal, RMul(monthly_contrib, RInt(months)))
    IN  IF pow_divides_by_zero(RAdd(RInt(1), monthly_rate), months) THEN 113
        ELSE IF annuity_divides_by_zero(monthly_contrib, monthly_rate) THEN 117
        ELSE IF RIsZero(total_invested) THEN 136
        ELSE 0

(* A slip: the principal discounted instead of compounded. *)
growth_total_fv_discounted(a) ==
    LET monthly_rate == RDiv(RDiv(Real(a.annual_rate), RInt(100)), RInt(12))
        months       == a.years * 12
    IN  RAdd(future_value_lump(Real(a.principal), monthly_rate, -months),
             future_value_annuity(Real(a.monthly_contribution), monthly_rate, months))

(* total_fv = fv_principal + fv_contributions, for a mapping for which the *)
(* calculator does not raise.                                              *)
growth_total_fv(a) ==
    LET monthly_rate == RDiv(RDiv(Real(a.annual_rate), RInt(100)), RInt(12))
        months       == a.years * 12
    IN  RAdd(future_value_lump(Real(a.principal), monthly_rate, months),
             future_value_annuity(Real(a.monthly_contribution), monthly_rate, months))

calculate_compound_interest(a) ==
    LET principal       == Real(a.principal)
        annual_rate     == RDiv(Real(a.annual_rate), RInt(100))
        years           == a.years
        monthly_contrib == Real(a.monthly_contribution)
        monthly_rate    == RDiv(annual_rate, RInt(12))
        months          == years * 12
        total_fv       == growth_total_fv(a)
        total_invested == RAdd(principal, RMul(monthly_contrib, RInt(months)))
        total_gains    == RSub(total_fv, total_invested)
        step           == IF years > 10 THEN 5 ELSE 1
        breakdown      == range(step, years + 1, step)
    IN  IF growth_raises_at(a) # 0
        THEN Raise("ZeroDivisionError", growth_raises_at(a))
        ELSE Report([principal            |-> principal,
                     monthly_contribution |-> monthly_contrib,
                     annual_rate          |-> a.annual_rate,
                     years                |-> years,
                     total_invested       |-> total_invested,
                     future_value         |-> total_fv,
                     total_gains          |-> total_gains,
                     roi                  |-> RMul(RDiv(total_gains, total_invested),
                                                   RInt(100)),
                     yearly |-> [i \in 1..Len(breakdown) |->
                         [year  |-> breakdown[i],
                          value |-> RAdd(future_value_lump(principal, monthly_rate,
                                                           breakdown[i] * 12),
                                         future_value_annuity(monthly_contrib, monthly_rate,
                                                              breakdown[i] * 12))]]])

---------------------------------------------------------------------------
(* evaluate_stock_metrics *)

(* A slip: the line appended without its leading mark. *)
Signal_plain(mark, text) == [mark |-> "", text |-> text]

(* A signal line: its leading mark ("favorable" for the check mark,        *)
(* "neutral" for the circle, "warning" for the warning sign) and its text. *)
Signal(mark, text) == [mark |-> mark, text |-> text]

startswith(signal, mark) == signal.mark = mark

FLt(x, y) == FCmp(x, y) = -1

(* A slip: <= for < at the ATTRACTIVE threshold. *)
pe_signal_inclusive(pe) ==
    IF ~FGt(pe, FFromInt(15)) THEN Signal("favorable", "P/E Ratio: ATTRACTIVE")
    ELSE IF FLt(pe, FFromInt(25)) THEN Signal("neutral", "P/E Ratio: FAIR")
    ELSE Signal("warning", "P/E Ratio: HIGH")

pe_signal(pe) ==
    IF FLt(pe, FFromInt(15)) THEN Signal("favorable", "P/E Ratio: ATTRACTIVE")
    ELSE IF FLt(pe, FFromInt(25)) THEN Signal("neutral", "P/E Ratio: FAIR")
    ELSE Signal("warning", "P/E Ratio: HIGH")

(* A slip: a low yield marked as a warning. *)
dividend_signal_penalised(div_yield) ==
    IF FGt(div_yield, FFromInt(3)) THEN Signal("favorable", "Dividend Yield: STRONG")
    ELSE IF FGt(div_yield, FFromInt(1)) THEN Signal("neutral", "Dividend Yield: MODERATE")
    ELSE Signal("warning", "Dividend Yield: LOW")

dividend_signal(div_yield) ==
    IF FGt(div_yield, FFromInt(3)) THEN Signal("favorable", "Dividend Yield: STRONG")
    ELSE IF FGt(div_yield, FFromInt(1)) THEN Signal("neutral", "Dividend Yield: MODERATE")
    ELSE Signal("neutral", "Dividend Yield: LOW")

(* A slip: >= for > at the GOOD threshold. *)
revenue_signal_inclusive(revenue_growth) ==
    IF FGt(revenue_growth, FFromInt(20))
    THEN Signal("favorable", "Revenue Growth: EXCELLENT")
    ELSE IF ~FLt(revenue_growth, FFromInt(10))
    THEN Signal("favorable", "Revenue Growth: GOOD")
    ELSE IF FGt(revenue_growth, FFromInt(0))
    THEN Signal("neutral", "Revenue Growth: MODEST")
    ELSE Signal("warning", "Revenue Growth: DECLINING")

revenue_signal(revenue_growth) ==
    IF FGt(revenue_growth, FFromInt(20))
    THEN Signal("favorable", "Revenue Growth: EXCELLENT")
    ELSE IF FGt(revenue_growth, FFromInt(10))
    THEN Signal("favorable", "Revenue Growth: GOOD")
    ELSE IF FGt(revenue_growth, FFromInt(0))
    THEN Signal("neutral", "Revenue Growth: MODEST")
    ELSE Signal("warning", "Revenue Growth: DECLINING")

(* A slip: <= for < at the LOW threshold. *)
debt_signal_inclusive(debt_to_equity) ==
    IF ~FGt(debt_to_equity, FLit(5, 10)) THEN Signal("favorable", "Debt Level: LOW")
    ELSE IF FLt(debt_to_equity, FLit(15, 10)) THEN Signal("neutral", "Debt Level: MODERATE")
    ELSE Signal("warning", "Debt Level: HIGH")

debt_signal(debt_to_equity) ==
    IF FLt(debt_to_equity, FLit(5, 10)) THEN Signal("favorable", "Debt Level: LOW")
    ELSE IF FLt(debt_to_equity, FLit(15, 10)) THEN Signal("neutral", "Debt Level: MODERATE")
    ELSE Signal("warning", "Debt Level: HIGH")

(* sum(1 for s in signals if s.startswith(mark)) *)
count_signals(signals, mark) ==
    Cardinality({i \in 1..Len(signals) : startswith(signals[i], mark)})

(* A slip: > for >= in the POSITIVE test. *)
overall_assessment_strict(signals) ==
    LET positive_signals == count_signals(signals, "favorable")
        warning_signals  == count_signals(signals, "warning")
    IN  IF positive_signals > 3 THEN "POSITIVE"
        ELSE IF warning_signals >= 2 THEN "CAUTIOUS"
        ELSE "NEUTRAL"

overall_assessment(signals) ==
    LET positive_signals == count_signals(signals, "favorable")
        warning_signals  == count_signals(signals, "warning")
    IN  IF positive_signals >= 3 THEN "POSITIVE"
        ELSE IF warning_signals >= 2 THEN "CAUTIOUS"
        ELSE "NEUTRAL"

evaluate_stock_metrics(a) ==
    LET pe             == Float(a.pe_ratio)
        div_yield      == Float(a.dividend_yield)
        revenue_growth == Float(a.revenue_growth)
        debt_to_equity == Float(a.debt_to_equity)
        signals == <<pe_signal(pe), dividend_signal(div_yield),
                     revenue_signal(revenue_growth), debt_signal(debt_to_equity)>>
    IN  Report([name           |-> a.stock_name,
                price          |-> Fmt2(Float(a.current_price)),
                pe_ratio       |-> Fmt2(pe),
                dividend_yield |-> Fmt2(div_yield),
                revenue_growth |-> Fmt2(revenue_growth),
                debt_to_equity |-> Fmt2(debt_to_equity),
                signals        |-> signals,
                overall        |-> overall_assessment(signals)])

---------------------------------------------------------------------------
(* calculate_retirement_needs *)

life_expectancy == 90

(* A slip: the shortfall printed without max(0, ...). *)
RMax0_unclamped(x) == x

(* max(0, x) *)
RMax0(x) == IF RGt(x, RInt(0)) THEN x ELSE RInt(0)

(* A slip: the shortfall spread evenly over the months, without interest. *)
monthly_payment_level(additional_needed, monthly_rate, months) ==
    RDiv(additional_needed, RInt(months))

(* (additional_needed * monthly_rate) / (((1 + monthly_rate) ** months - 1)) *)
monthly_payment(additional_needed, monthly_rate, months) ==
    RDiv(RMul(additional_needed, monthly_rate),
         RSub(RPow(RAdd(RInt(1), monthly_rate), months), RInt(1)))

calculate_retirement_needs(a) ==
    LET current_age     == a.current_age
        retirement_age  == a.retirement_age
        current_savings == Real(a.current_savings)
        annual_income   == Real(a.desired_annual_income)
        expected_return == RDiv(Real(a.expected_return), RInt(100))
        years_to_retirement == retirement_age - current_age
        retirement_years    == life_expectancy - retirement_age
        retirement_corpus   == RMul(annual_income, RInt(25))
        fv_current == future_value_lump(current_savings, expected_return,
                                        years_to_retirement)
        additional_needed == RSub(retirement_corpus, fv_current)
        monthly_rate == RDiv(expected_return, RInt(12))
        months       == years_to_retirement * 12
        annuity_factor == RSub(RPow(RAdd(RInt(1), monthly_rate), months), RInt(1))
        monthly_contribution ==
            IF RGt(additional_needed, RInt(0))
            THEN monthly_payment(additional_needed, monthly_rate, months)
            ELSE RInt(0)
    IN  IF pow_divides_by_zero(RAdd(RInt(1), expected_return), years_to_retirement)
        THEN Raise("ZeroDivisionError", 288)
        ELSE IF /\ RGt(additional_needed, RInt(0))
                /\ \/ pow_divides_by_zero(RAdd(RInt(1), monthly_rate), months)
                   \/ RIsZero(annuity_factor)
        THEN Raise("ZeroDivisionError", 298)
        ELSE Report([current_age          |-> current_age,
                     retirement_age       |-> retirement_age,
                     years_to_retirement  |-> years_to_retirement,
                     current_savings      |-> current_savings,
                     expected_return      |-> a.expected_return,
                     annual_income        |-> annual_income,
                     retirement_years     |-> retirement_years,
                     retirement_corpus    |-> retirement_corpus,
                     fv_current           |-> fv_current,
                     additional_needed    |-> RMax0(additional_needed),
                     monthly_contribution |-> monthly_contribution])

---------------------------------------------------------------------------
(* compare_investment_options *)

(* A slip: the lookup without .lower(). *)
risk_score_case_sensitive(risk) ==
    IF risk = Str("low") THEN 1
    ELSE IF risk = Str("medium") THEN 2
    ELSE IF risk = Str("high") THEN 3
    ELSE 2

(* risk_scores.get(risk.lower(), 2) *)
risk_score(risk) ==
    IF lower(risk) = Str("low") THEN 1
    ELSE IF lower(risk) = Str("medium") THEN 2
    ELSE IF lower(risk) = Str("high") THEN 3
    ELSE 2

(* (return_pct - 2) / risk_score, on floats *)
risk_adj_return(return_pct, score) ==
    FDivInt(FSub(Float(return_pct), FFromInt(2)), score)

(* The "... will be $... higher than ..." line: the option it names as the *)
(* higher one, the other one, and the difference.                          *)
comparison_line(name_a, fv_a, name_b, fv_b) ==
    IF RGt(fv_a, fv_b)
    THEN [higher |-> name_a, than |-> name_b, difference |-> RSub(fv_a, fv_b)]
    ELSE [higher |-> name_b, than |-> name_a, difference |-> RSub(fv_b, fv_a)]

(* The recommendation: the name of the option recommended, or "comparable". *)
recommendation(name_a, risk_adj_return_a, name_b, risk_adj_return_b) ==
    IF FGt(risk_adj_return_a, FMul(risk_adj_return_b, FLit(12, 10)))
    THEN [recommended |-> name_a]
    ELSE IF FGt(risk_adj_return_b, FMul(risk_adj_return_a, FLit(12, 10)))
    THEN [recommended |-> name_b]
    ELSE [recommended |-> "comparable"]

compare_investment_options(a) ==
    LET name_a   == a.option_a_name
        return_a == RDiv(Real(a.option_a_return), RInt(100))
        risk_a   == a.option_a_risk
        name_b   == a.option_b_name
        return_b == RDiv(Real(a.option_b_return), RInt(100))
        risk_b   == a.option_b_risk
        amount   == Real(a.investment_amount)
        years    == a.time_horizon
        fv_a     == future_value_lump(amount, return_a, years)
        fv_b     == future_value_lump(amount, return_b, years)
        risk_score_a == risk_score(risk_a)
        risk_score_b == risk_score(risk_b)
        risk_adj_return_a == risk_adj_return(a.option_a_return, risk_score_a)
        risk_adj_return_b == risk_adj_return(a.option_b_return, risk_score_b)
    IN  IF \/ pow_divides_by_zero(RAdd(RInt(1), return_a), years)
           \/ pow_divides_by_zero(RAdd(RInt(1), return_b), years)
        THEN Raise("ZeroDivisionError", 372)
        ELSE Report([amount |-> amount,
                     years  |-> years,
                     option_a |-> [name   |-> name_a,
                                   return |-> a.option_a_return,
                                   risk   |-> upper(risk_a),
                                   future_value |-> fv_a,
                                   gain   |-> RSub(fv_a, amount),
                                   risk_adjusted |-> risk_adj_return_a],
                     option_b |-> [name   |-> name_b,
                                   return |-> a.option_b_return,
                                   risk   |-> upper(risk_b),
                                   future_value |-> fv_b,
                                   gain   |-> RSub(fv_b, amount),
                                   risk_adjusted |-> risk_adj_return_b],
                     comparison |-> comparison_line(name_a, fv_a, name_b, fv_b),
                     recommendation |->
                         recommendation(name_a, risk_adj_return_a,
                                        name_b, risk_adj_return_b)])

---------------------------------------------------------------------------
(* The argument mappings the callers of the model supply. *)

MaxAge == 105

AgeBelow == 5

Ages == (0 - AgeBelow)..MaxAge

RiskStrings == {Str("conservative"), Str("Conservative"), Str("aggressive"),
                Str("AGGRESSIVE"), Str("moderate"), Str("balanced")}

Totals == {Dec(0, 1), Dec(3, 1), Dec(10, 1), Dec(123456, 100), Dec(40000, 1)}

AllocationArgs ==
    [age : Ages, risk_tolerance : RiskStrings, total_amount : Totals]

MaxYears == 10

Principals == {Dec(0, 1), Dec(1000, 1), Dec(25005, 10)}

AnnualRates == {Dec(0, 1), Dec(7, 1), Dec(-2, 1)}

Contributions == {Dec(0, 1), Dec(100, 1)}

(* Horizons above ten years, where the breakdown lists every fifth year. *)
LongHorizons == {12, 15}

GrowthYears == (1..MaxYears) \cup LongHorizons

GrowthArgs ==
    [principal : Principals, annual_rate : AnnualRates, years : GrowthYears,
     monthly_contribution : Contributions]

PeRatios == {Dec(-5, 1), Dec(0, 1), Dec(149, 10), Dec(15, 1), Dec(20, 1), Dec(25, 1), Dec(30, 1)}

DividendYields == {Dec(-1, 1), Dec(0, 1), Dec(1, 1), Dec(2, 1), Dec(3, 1), Dec(31, 10)}

RevenueGrowths == {Dec(-5, 1), Dec(0, 1), Dec(5, 1), Dec(10, 1), Dec(15, 1),
                   Dec(20, 1), Dec(21, 1)}

DebtRatios == {Dec(4, 10), Dec(5, 10), Dec(1, 1), Dec(15, 10), Dec(2, 1)}

StockArgs ==
    [stock_name : {"TechCorp"}, current_price : {Dec(125, 1)}, pe_ratio : PeRatios,
     dividend_yield : DividendYields, revenue_growth : RevenueGrowths,
     debt_to_equity : DebtRatios]

MaxHorizon == 3

CurrentAges == {30, 60}

Savings == {Dec(0, 1), Dec(50000, 1), Dec(1000000, 1)}

Incomes == {Dec(0, 1), Dec(40000, 1), Dec(60000, 1)}

ExpectedReturns == {Dec(0, 1), Dec(7, 1), Dec(45, 10), Dec(-2, 1)}

RetirementArgs ==
    {[current_age |-> c, retirement_age |-> c + y, current_savings |-> s,
      desired_annual_income |-> i, expected_return |-> r] :
        c \in CurrentAges, y \in 1..MaxHorizon, s \in Savings, i \in Incomes,
        r \in ExpectedReturns}

OptionReturns == {Dec(1, 1), Dec(2, 1), Dec(5, 1), Dec(7, 1), Dec(8, 1)}

OptionRisks == {Str("low"), Str("Low"), Str("medium"), Str("Medium"), Str("HIGH"),
                Str("extreme")}

Amounts == {Dec(0, 1), Dec(10000, 1)}

CompareArgs ==
    [option_a_name : {"A"}, option_a_return : OptionReturns, option_a_risk : OptionRisks,
     option_b_name : {"B"}, option_b_return : OptionReturns, option_b_risk : OptionRisks,
     investment_amount : Amounts, time_horizon : 0..MaxHorizon]

---------------------------------------------------------------------------
(* A calculator reads every argument with args["key"] in its first lines,  *)
(* one key a line, before it computes anything; a key the mapping lacks    *)
(* raises KeyError at the line of its lookup.                              *)

ToolNames == {"calculate_portfolio_allocation", "calculate_compound_interest",
              "evaluate_stock_metrics", "calculate_retirement_needs",
              "compare_investment_options"}

(* The keys a calculator looks up, in order, and the line of the first. *)
lookups(t) ==
    CASE t = "calculate_portfolio_allocation" ->
            [first |-> 38, keys |-> <<"age", "risk_tolerance", "total_amount">>]
      [] t = "calculate_compound_interest" ->
            [first |-> 103,
             keys |-> <<"principal", "annual_rate", "years", "monthly_contribution">>]
      [] t = "evaluate_stock_metrics" ->
            [first |-> 178,
             keys |-> <<"stock_name", "current_price", "pe_ratio", "dividend_yield",
                        "revenue_growth", "debt_to_equity">>]
      [] t = "calculate_retirement_needs" ->
            [first |-> 274,
             keys |-> <<"current_age", "retirement_age", "current_savings",
                        "desired_annual_income", "expected_return">>]
      [] t = "compare_investment_options" ->
            [first |-> 362,
             keys |-> <<"option_a_name", "option_a_return", "option_a_risk",
                        "option_b_name", "option_b_return", "option_b_risk",
                        "investment_amount", "time_horizon">>]

(* The line of the first lookup that fails for the mapping a, or 0. *)
key_error_line(t, a) ==
    LET keys    == lookups(t).keys
        missing == {i \in 1..Len(keys) : keys[i] \notin DOMAIN a}
    IN  IF missing = {} THEN 0
        ELSE lookups(t).first + (CHOOSE i \in missing : \A j \in missing : i <= j) - 1

(* The calculator t on any mapping a. *)
handle(t, a) ==
    IF key_error_line(t, a) # 0 THEN Raise("KeyError", key_error_line(t, a))
    ELSE CASE t = "calculate_portfolio_allocation" -> calculate_portfolio_allocation(a)
           [] t = "calculate_compound_interest"    -> calculate_compound_interest(a)
           [] t = "evaluate_stock_metrics"         -> evaluate_stock_metrics(a)
           [] t = "calculate_retirement_needs"     -> calculate_retirement_needs(a)
           [] t = "compare_investment_options"     -> compare_investment_options(a)

(* A complete mapping for each calculator. *)
SampleArgs(t) ==
    CASE t = "calculate_portfolio_allocation" ->
            [age |-> 35, risk_tolerance |-> Str("moderate"), total_amount |-> Dec(40000, 1)]
      [] t = "calculate_compound_interest" ->
            [principal |-> Dec(1000, 1), annual_rate |-> Dec(7, 1), years |-> 1,
             monthly_contribution |-> Dec(100, 1)]
      [] t = "evaluate_stock_metrics" ->
            [stock_name |-> "TechCorp", current_price |-> Dec(125, 1),
             pe_ratio |-> Dec(20, 1), dividend_yield |-> Dec(2, 1),
             revenue_growth |-> Dec(15, 1), debt_to_equity |-> Dec(1, 1)]
      [] t = "calculate_retirement_needs" ->
            [current_age |-> 30, retirement_age |-> 31, current_savings |-> Dec(50000, 1),
             desired_annual_income |-> Dec(40000, 1), expected_return |-> Dec(7, 1)]
      [] t = "compare_investment_options" ->
            [option_a_name |-> "A", option_a_return |-> Dec(7, 1),
             option_a_risk |-> Str("low"), option_b_name |-> "B",
             option_b_return |-> Dec(5, 1), option_b_risk |-> Str("medium"),
             investment_amount |-> Dec(10000, 1), time_horizon |-> 1]

(* The mappings that lack at least one key of the calculator t. *)
IncompleteArgs(t) ==
    {[k \in kept |-> SampleArgs(t)[k]] :
        kept \in (SUBSET DOMAIN SampleArgs(t)) \ {DOMAIN SampleArgs(t)}}

---------------------------------------------------------------------------
(* Complete mappings whose numbers lie outside the ranges of the request   *)
(* types: a retirement age at or below the current age, an age below 0 or  *)
(* above 120, a negative number of years, an annual rate of -100 or less.  *)

HorizonBelow == 2

AgeAbove == 2

YearsBelow == 2

LowRates == {Dec(-100, 1), Dec(-150, 1), Dec(-1200, 1)}

OutOfDomainArgs(t) ==
    CASE t = "calculate_retirement_needs" ->
            {[current_age |-> c, retirement_age |-> c - y, current_savings |-> s,
              desired_annual_income |-> i, expected_return |-> r] :
                c \in CurrentAges, y \in 0..HorizonBelow, s \in Savings, i \in Incomes,
                r \in ExpectedReturns}
      [] t = "calculate_portfolio_allocation" ->
            [age : ((0 - AgeBelow)..(0 - 1)) \cup (121..(120 + AgeAbove)),
             risk_tolerance : RiskStrings, total_amount : Totals]
      [] t = "calculate_compound_interest" ->
            [principal : Principals, annual_rate : AnnualRates,
             years : (0 - YearsBelow)..(0 - 1), monthly_contribution : Contributions]
            \cup
            [principal : Principals, annual_rate : LowRates,
             years : 1..MaxHorizon, monthly_contribution : Contributions]
      [] OTHER -> {}

---------------------------------------------------------------------------
(* The advisors: AdvancedFinancialAdvisor and ConversationalFinancialAdvisor *)
(* hold a ClaudeSDKClient between start_conversation and end_conversation;   *)
(* FinancialAdvisorAgent holds nothing and queries afresh on every call.     *)

Advisors == {"AdvancedFinancialAdvisor", "ConversationalFinancialAdvisor"}

(* Where each advisor awaits connect, raises for a missing client and *)
(* awaits disconnect.                                                 *)
AdvisorLines ==
    [AdvancedFinancialAdvisor       |-> [connect |-> 77, raise |-> 91, disconnect |-> 120],
     ConversationalFinancialAdvisor |-> [connect |-> 58, raise |-> 75, disconnect |-> 102]]

(* Python's None, as a value no string of characters equals. *)
None == <<"None">>

(* self.client = None: the advisor holds no client. Clients are numbered *)
(* from 1 in the order they are constructed.                             *)
NoClient == 0

Returned(value) == [kind |-> "return", value |-> value]

TextBlock(text) == [type |-> "TextBlock", text |-> text]

ToolUseBlock == [type |-> "ToolUseBlock", text |-> <<>>]

AssistantMessage(content) ==
    [type |-> "AssistantMessage", content |-> content, is_error |-> FALSE, result |-> None]

ResultMessage(is_error, result) ==
    [type |-> "ResultMessage", content |-> <<>>, is_error |-> is_error, result |-> result]

(* An exception of the SDK or of anything below it: its class, str(e), and *)
(* the fields the handlers of ask_advice read.                             *)
Exception(type, str, exit_code, stderr, line) ==
    [type |-> type, str |-> str, exit_code |-> exit_code, stderr |-> stderr, line |-> line]

NoException == Exception("none", <<>>, 0, <<>>, <<>>)

(* str() of a one-digit integer. *)
str_int(n) == <<<<"0","1","2","3","4","5","6","7","8","9">>[n + 1]>>

(* message.result or 'Unknown error': None and the empty string are falsy. *)
result_or_unknown(result) ==
    IF result = None \/ result = <<>> THEN Str("Unknown error") ELSE result

(* for block in message.content: the text of the TextBlocks, in order. *)
RECURSIVE content_text(_)
content_text(content) ==
    IF content = <<>> THEN <<>>
    ELSE (IF Head(content).type = "TextBlock" THEN Head(content).text ELSE <<>>)
             \o content_text(Tail(content))

(* A slip: the text gathered before an error result is returned with it. *)
RECURSIVE receive_response_keeping_text(_, _, _, _)
receive_response_keeping_text(response, i, response_text, error_prefix) ==
    IF i > Len(response.messages)
    THEN IF response.raises = NoException
         THEN [kind |-> "return", value |-> response_text]
         ELSE [kind |-> "except", e |-> response.raises]
    ELSE LET message == response.messages[i]
             text == IF message.type = "AssistantMessage"
                     THEN response_text \o content_text(message.content)
                     ELSE response_text
         IN  IF message.type = "ResultMessage" /\ message.is_error
             THEN [kind |-> "return",
                   value |-> text \o error_prefix \o result_or_unknown(message.result)]
             ELSE receive_response_keeping_text(response, i + 1, text, error_prefix)

(* The async for loop over the response stream, from message i on: it ends *)
(* by the return inside the loop, by the end of the stream, or by the      *)
(* exception the stream raises after its last message.                     *)
RECURSIVE receive_response(_, _, _, _)
receive_response(response, i, response_text, error_prefix) ==
    IF i > Len(response.messages)
    THEN IF response.raises = NoException
         THEN [kind |-> "return", value |-> response_text]
         ELSE [kind |-> "except", e |-> response.raises]
    ELSE LET message == response.messages[i]
             text == IF message.type = "AssistantMessage"
                     THEN response_text \o content_text(message.content)
                     ELSE response_text
         IN  IF message.type = "ResultMessage" /\ message.is_error
             THEN [kind |-> "return",
                   value |-> error_prefix \o result_or_unknown(message.result)]
             ELSE receive_response(response, i + 1, text, error_prefix)

(* except Exception as e of the two asks. *)
ask_except_prefix(advisor) ==
    IF advisor = "AdvancedFinancialAdvisor"
    THEN Str("Error: ")
    ELSE Str("Error during conversation: ")

(* ask with a client set: the query, then the response stream. *)
ask(advisor, response) ==
    IF response.query # NoException
    THEN Returned(ask_except_prefix(advisor) \o response.query.str)
    ELSE LET r == receive_response(response, 1, <<>>, Str("Error: ")) IN
         IF r.kind = "except"
         THEN Returned(ask_except_prefix(advisor) \o r.e.str)
         ELSE Returned(r.value)

(* The except clauses of ask_advice, in order. *)
ask_advice_except(e) ==
    CASE e.type = "CLINotFoundError" ->
            Str("Error: Claude Code CLI not found. Please install it with: npm install -g @anthropic-ai/claude-code")
      [] e.type = "ProcessError" ->
            Str("Process error: ") \o str_int(e.exit_code) \o Str(" - ") \o e.stderr
      [] e.type = "CLIJSONDecodeError" ->
            Str("Failed to parse response: ") \o e.line
      [] OTHER ->
            Str("Unexpected error: ") \o e.str

ask_advice(response) ==
    LET r == receive_response(response, 1, <<>>, Str("Error occurred: ")) IN
    IF r.kind = "except"
    THEN Returned(ask_advice_except(r.e))
    ELSE Returned(r.value)

(* What the SDK may answer. *)
MaxMessages == 2

MaxClients == 2

Contents ==
    {<<TextBlock(Str("a"))>>,
     <<TextBlock(Str("b")), ToolUseBlock, TextBlock(Str("a"))>>}

Messages ==
    {AssistantMessage(c) : c \in Contents}
        \cup {ResultMessage(FALSE, None), ResultMessage(TRUE, None),
              ResultMessage(TRUE, <<>>), ResultMessage(TRUE, Str("limit"))}

Streams == UNION {[1..n -> Messages] : n \in 0..MaxMessages}

Exceptions ==
    {Exception("CLINotFoundError", Str("boom"), 0, <<>>, <<>>),
     Exception("ProcessError", Str("boom"), 1, Str("boom"), <<>>),
     Exception("CLIJSONDecodeError", Str("boom"), 0, <<>>, Str("{")),
     Exception("Exception", Str("boom"), 0, <<>>, <<>>),
     Exception("Exception", <<>>, 0, <<>>, <<>>)}

(* What a client raises when its process or its connection fails. *)
ClientErrors == {Exception("ProcessError", Str("boom"), 1, Str("boom"), <<>>)}

(* No query was made, so nothing was answered. *)
NoResponse == [query |-> NoException, messages |-> <<>>, raises |-> NoException]

(* What a client may answer to one query: the query itself raises, or the *)
(* stream yields its messages and then ends or raises.                    *)
Responses ==
    [query : ClientErrors, messages : {<<>>}, raises : {NoException}]
        \cup [query : {NoException}, messages : Streams,
              raises : {NoException} \cup ClientErrors]

(* What the one-shot query of ask_advice may yield. *)
AdviceResponses ==
    [query : {NoException}, messages : Streams, raises : {NoException} \cup Exceptions]

---------------------------------------------------------------------------
(* tool, args, outcome: the call in progress, its arguments and what it     *)
(* hands back. client: self.client of each advisor. clients: every          *)
(* ClaudeSDKClient constructed so far, with the advisor that made it and    *)
(* its connection. queried: the client the call in progress sent a query to.*)
VARIABLES tool, args, outcome, client, clients, queried

vars == <<tool, args, outcome, client, clients, queried>>

session == <<client, clients, queried>>

Init ==
    /\ tool = "none"
    /\ args = <<>>
    /\ outcome = <<>>
    /\ client = [advisor \in Advisors |-> NoClient]
    /\ clients = <<>>
    /\ queried = NoClient

(* The caller has the outcome; nothing of the invocation is kept. *)
Return ==
    /\ tool # "none"
    /\ tool' = "none"
    /\ args' = <<>>
    /\ outcome' = <<>>
    /\ queried' = NoClient
    /\ UNCHANGED <<client, clients>>

InvokeAllocation ==
    /\ tool = "none"
    /\ \E a \in AllocationArgs :
          /\ tool' = "calculate_portfolio_allocation"
          /\ args' = a
          /\ outcome' = calculate_portfolio_allocation(a)
    /\ UNCHANGED session

InvokeGrowth ==
    /\ tool = "none"
    /\ \E a \in GrowthArgs :
          /\ tool' = "calculate_compound_interest"
          /\ args' = a
          /\ outcome' = calculate_compound_interest(a)
    /\ UNCHANGED session

InvokeStock ==
    /\ tool = "none"
    /\ \E a \in StockArgs :
          /\ tool' = "evaluate_stock_metrics"
          /\ args' = a
          /\ outcome' = evaluate_stock_metrics(a)
    /\ UNCHANGED session

InvokeRetirement ==
    /\ tool = "none"
    /\ \E a \in RetirementArgs :
          /\ tool' = "calculate_retirement_needs"
          /\ args' = a
          /\ outcome' = calculate_retirement_needs(a)
    /\ UNCHANGED session

InvokeCompare ==
    /\ tool = "none"
    /\ \E a \in CompareArgs :
          /\ tool' = "compare_investment_options"
          /\ args' = a
          /\ outcome' = compare_investment_options(a)
    /\ UNCHANGED session

InvokeIncomplete ==
    /\ tool = "none"
    /\ \E t \in ToolNames :
          \E a \in IncompleteArgs(t) :
              /\ tool' = t
              /\ args' = a
              /\ outcome' = handle(t, a)
    /\ UNCHANGED session

InvokeOutOfDomain ==
    /\ tool = "none"
    /\ \E t \in ToolNames :
          \E a \in OutOfDomainArgs(t) :
              /\ tool' = t
              /\ args' = a
              /\ outcome' = handle(t, a)
    /\ UNCHANGED session

(* start_conversation: a new client replaces whatever self.client held,   *)
(* then connect is awaited; the conversational advisor then asks its      *)
(* initial message, if it was given one, and drops the answer.            *)
StartConversation ==
    /\ tool = "none"
    /\ Len(clients) < MaxClients
    /\ \E advisor \in Advisors :
       \E connect \in {NoException} \cup ClientErrors :
       \E initial_message \in
              IF advisor = "ConversationalFinancialAdvisor" /\ connect = NoException
              THEN {None, Str("a")} ELSE {None} :
       \E response \in IF initial_message = None THEN {NoResponse} ELSE Responses :
          /\ tool' = "start_conversation"
          /\ args' = [advisor |-> advisor, initial_message |-> initial_message,
                      connect |-> connect, response |-> response]
          /\ clients' = Append(clients,
                [owner |-> advisor,
                 status |-> IF connect = NoException THEN "connected" ELSE "created"])
          /\ client' = [client EXCEPT ![advisor] = Len(clients) + 1]
          /\ queried' = IF initial_message = None THEN NoClient ELSE Len(clients) + 1
          /\ outcome' = IF connect = NoException
                        THEN Returned(None)
                        ELSE Raise(connect.type, AdvisorLines[advisor].connect)

(* ask: RuntimeError without a client; otherwise the query goes to the    *)
(* client and the answer is read from its response stream.                *)
Ask ==
    /\ tool = "none"
    /\ \E advisor \in Advisors :
       \E response \in IF client[advisor] = NoClient THEN {NoResponse} ELSE Responses :
          /\ tool' = "ask"
          /\ args' = [advisor |-> advisor, response |-> response]
          /\ queried' = client[advisor]
          /\ outcome' = IF client[advisor] = NoClient
                        THEN Raise("RuntimeError", AdvisorLines[advisor].raise)
                        ELSE ask(advisor, response)
    /\ UNCHANGED <<client, clients>>

(* end_conversation: with a client, disconnect is awaited and only then   *)
(* self.client is set to None; without one, nothing happens.              *)
EndConversation ==
    /\ tool = "none"
    /\ \E advisor \in Advisors :
       \E disconnect \in IF client[advisor] = NoClient
                         THEN {NoException} ELSE {NoException} \cup ClientErrors :
          /\ tool' = "end_conversation"
          /\ args' = [advisor |-> advisor, disconnect |-> disconnect]
          /\ queried' = NoClient
          /\ IF client[advisor] = NoClient
             THEN /\ outcome' = Returned(None)
                  /\ UNCHANGED <<client, clients>>
             ELSE IF disconnect = NoException
             THEN /\ clients' = [clients EXCEPT ![client[advisor]].status = "disconnected"]
                  /\ client' = [client EXCEPT ![advisor] = NoClient]
                  /\ outcome' = Returned(None)
             ELSE /\ clients' = [clients EXCEPT ![client[advisor]].status = "disconnect failed"]
                  /\ UNCHANGED client
                  /\ outcome' = Raise(disconnect.type, AdvisorLines[advisor].disconnect)

(* FinancialAdvisorAgent.ask_advice: one query, no client kept. *)
AskAdvice ==
    /\ tool = "none"
    /\ \E response \in AdviceResponses :
          /\ tool' = "ask_advice"
          /\ args' = [advisor |-> "FinancialAdvisorAgent", response |-> response]
          /\ outcome' = ask_advice(response)
    /\ UNCHANGED session

AllocationSpec == Init /\ [][InvokeAllocation \/ Return]_vars

GrowthSpec == Init /\ [][InvokeGrowth \/ Return]_vars

StockSpec == Init /\ [][InvokeStock \/ Return]_vars

RetirementSpec == Init /\ [][InvokeRetirement \/ Return]_vars

CompareSpec == Init /\ [][InvokeCompare \/ Return]_vars

IncompleteSpec == Init /\ [][InvokeIncomplete \/ Return]_vars

OutOfDomainSpec == Init /\ [][InvokeOutOfDomain \/ Return]_vars

AdvisorSpec ==
    Init /\ [][StartConversation \/ Ask \/ EndConversation \/ AskAdvice \/ Return]_vars

Next ==
    \/ InvokeAllocation
    \/ InvokeGrowth
    \/ InvokeStock
    \/ InvokeRetirement
    \/ InvokeCompare
    \/ InvokeIncomplete
    \/ InvokeOutOfDomain
    \/ StartConversation
    \/ Ask
    \/ EndConversation
    \/ AskAdvice
    \/ Return

Spec == Init /\ [][Next]_vars

---------------------------------------------------------------------------
(* Exact arithmetic on unrounded m * 2^e values, for stating the           *)
(* properties of the float results.                                        *)

DSign(x) == IF x.m = <<>> THEN 0 ELSE IF x.neg THEN -1 ELSE 1

DAbs(x) == [x EXCEPT !.neg = FALSE]

(* x * k * 2^s for a natural k. *)
DScale(x, k, s) == [neg |-> x.neg, m |-> BMulSmall(x.m, k), e |-> x.e + s]

DSub(x, y) == DAdd(x, FNeg(y))

DLeq(x, y) == DSign(DSub(x, y)) <= 0

Allocated == tool = "calculate_portfolio_allocation"

Grown == tool = "calculate_compound_interest"

Evaluated == tool = "evaluate_stock_metrics"

Planned == tool = "calculate_retirement_needs"

Compared == tool = "compare_investment_options"

Reported == outcome.kind = "report"

---------------------------------------------------------------------------
(* C2 *)

AmountSum == FAdd(outcome.report.stock_amount, outcome.report.bond_amount)

(* C2 as claimed, already for the ages 0..100: the allocation has          *)
(* stock_pct + bond_pct = 100 and stock_amount + bond_amount equal to      *)
(* total_amount.                                                           *)
C2_AllocationSumsExact ==
    (Allocated /\ args.age \in 0..100) =>
        /\ Reported
        /\ outcome.report.stock_pct + outcome.report.bond_pct = 100
        /\ FEq(AmountSum, Float(args.total_amount))

(* C2 as amended: every allocation has stock_pct + bond_pct = 100, and     *)
(* stock_amount + bond_amount differs from total_amount by at most         *)
(* 2^-51 * total_amount * (|stock_pct| + |bond_pct|) / 100, the rounding   *)
(* of the float operations.                                                *)
C2_AllocationSumsRounded ==
    Allocated =>
        /\ Reported
        /\ outcome.report.stock_pct + outcome.report.bond_pct = 100
        /\ DLeq(DScale(DAbs(DSub(AmountSum, Float(args.total_amount))), 100, 51),
                DScale(DAbs(Float(args.total_amount)),
                       Abs(outcome.report.stock_pct) + Abs(outcome.report.bond_pct), 0))

(* An allocation, for an age in 0..100, whose amounts do not add up to the *)
(* total exactly.                                                          *)
C2_Witness ==
    /\ Allocated
    /\ args.age \in 0..100
    /\ Reported
    /\ ~FEq(AmountSum, Float(args.total_amount))

---------------------------------------------------------------------------
(* C3 *)

ConservativeSpellings == {Str("conservative"), Str("Conservative")}

AggressiveSpellings == {Str("aggressive"), Str("AGGRESSIVE")}

(* C3: with base = 100 - age, stock_pct is max(20, base - 15) for a        *)
(* conservative risk string in any letter case, min(90, base + 15) for an  *)
(* aggressive one, and base itself, with no floor and no cap, for moderate *)
(* and every other string; bond_pct is 100 - stock_pct.  Age 35, moderate, *)
(* 40000 gives 65 and 35 with the amounts 26000 and 14000, and age 95,     *)
(* moderate gives stock_pct = 5.                                           *)
C3_AllocationRule ==
    Allocated =>
        LET base == 100 - args.age
            r    == outcome.report
        IN  /\ Reported
            /\ args.risk_tolerance \in ConservativeSpellings =>
                  r.stock_pct = (IF base - 15 < 20 THEN 20 ELSE base - 15)
            /\ args.risk_tolerance \in AggressiveSpellings =>
                  r.stock_pct = (IF base + 15 > 90 THEN 90 ELSE base + 15)
            /\ args.risk_tolerance \notin ConservativeSpellings \cup AggressiveSpellings =>
                  r.stock_pct = base
            /\ r.bond_pct = 100 - r.stock_pct
            /\ (/\ args.age = 35
                /\ args.risk_tolerance = Str("moderate")
                /\ args.total_amount = Dec(40000, 1)) =>
                  /\ r.stock_pct = 65
                  /\ r.bond_pct = 35
                  /\ r.stock_amount = FFromInt(26000)
                  /\ r.bond_amount = FFromInt(14000)
                  /\ r.stocks = 2600000
                  /\ r.bonds = 1400000
            /\ (args.age = 95 /\ args.risk_tolerance = Str("moderate")) =>
                  r.stock_pct = 5

(* The allocation of age 95 with an unrecognized risk string: no floor. *)
C3_Witness ==
    /\ Allocated
    /\ args.age = 95
    /\ args.risk_tolerance = Str("balanced")
    /\ outcome.report.stock_pct = 5
    /\ outcome.report.bond_pct = 95

---------------------------------------------------------------------------
(* C4 *)

(* C4 as claimed: at annual_rate 0 with a positive monthly contribution    *)
(* the growth calculator returns a report whose future value is            *)
(* principal + monthly_contribution * months, and every point of the       *)
(* yearly series is principal + monthly_contribution * 12 * year.          *)
C4_ZeroRateGrowth ==
    (/\ Grown
     /\ args.annual_rate.n = 0
     /\ args.monthly_contribution.n > 0) =>
        /\ Reported
        /\ REq(outcome.report.future_value,
               RAdd(Real(args.principal),
                    RMul(Real(args.monthly_contribution), RInt(12 * args.years))))
        /\ \A i \in 1..Len(outcome.report.yearly) :
              REq(outcome.report.yearly[i].value,
                  RAdd(Real(args.principal),
                       RMul(Real(args.monthly_contribution),
                            RInt(12 * outcome.report.yearly[i].year))))

---------------------------------------------------------------------------
(* C5 *)

(* C5 as claimed: with principal 0 and monthly contribution 0 the growth   *)
(* calculator does not raise a division fault.                             *)
C5_ZeroInvestedReported ==
    (/\ Grown
     /\ args.principal.n = 0
     /\ args.monthly_contribution.n = 0) =>
        outcome.kind # "raise"

---------------------------------------------------------------------------
(* C6 *)

Marked(mark) ==
    Cardinality({i \in 1..Len(outcome.report.signals) :
                    outcome.report.signals[i].mark = mark})

(* C6: the verdict is POSITIVE when at least 3 of the four signals are     *)
(* favorable, otherwise CAUTIOUS when at least 2 are warnings, otherwise   *)
(* NEUTRAL; pe 14.9, dividend yield 3.1, revenue growth 21 and             *)
(* debt-to-equity 0.4 give four favorable signals and POSITIVE.            *)
C6_VerdictRule ==
    Evaluated =>
        /\ Reported
        /\ Len(outcome.report.signals) = 4
        /\ Marked("favorable") >= 3 => outcome.report.overall = "POSITIVE"
        /\ (Marked("favorable") < 3 /\ Marked("warning") >= 2) =>
              outcome.report.overall = "CAUTIOUS"
        /\ (Marked("favorable") < 3 /\ Marked("warning") < 2) =>
              outcome.report.overall = "NEUTRAL"
        /\ (/\ args.pe_ratio = Dec(149, 10)
            /\ args.dividend_yield = Dec(31, 10)
            /\ args.revenue_growth = Dec(21, 1)
            /\ args.debt_to_equity = Dec(4, 10)) =>
              /\ Marked("favorable") = 4
              /\ outcome.report.overall = "POSITIVE"

(* A stock with exactly three favorable signals, judged POSITIVE. *)
C6_Witness ==
    /\ Evaluated
    /\ Marked("favorable") = 3
    /\ outcome.report.overall = "POSITIVE"

---------------------------------------------------------------------------
(* C7 *)

(* current_savings compounded annually for years_to_retirement, and the    *)
(* corpus 25 x desired_annual_income, from the arguments.                  *)
ProjectedSavings ==
    RMul(Real(args.current_savings),
         RPow(RAdd(RInt(1), RFrac(args.expected_return.n, 100 * args.expected_return.d)),
              args.retirement_age - args.current_age))

CorpusNeeded == RMul(RInt(25), Real(args.desired_annual_income))

(* C7: when the projected value of the current savings is at least the     *)
(* corpus needed, the reported additional_needed is 0 and the required     *)
(* monthly saving is 0; no report shows a negative additional_needed.      *)
C7_RetirementBreakEven ==
    Planned =>
        /\ RCmp(ProjectedSavings, CorpusNeeded) >= 0 =>
              /\ Reported
              /\ RIsZero(outcome.report.additional_needed)
              /\ RIsZero(outcome.report.monthly_contribution)
        /\ Reported => RCmp(outcome.report.additional_needed, RInt(0)) >= 0

(* A plan whose savings outgrow a positive corpus. *)
C7_Witness ==
    /\ Planned
    /\ Reported
    /\ RGt(CorpusNeeded, RInt(0))
    /\ RGt(ProjectedSavings, CorpusNeeded)
    /\ RIsZero(outcome.report.monthly_contribution)

---------------------------------------------------------------------------
(* C8, C9 *)

ScoreA == outcome.report.option_a.risk_adjusted

ScoreB == outcome.report.option_b.risk_adjusted

(* x exceeds y by more than 20% of y's magnitude: 5 * (x - y) > |y|. *)
ExceedsBy20(x, y) == ~DLeq(DScale(DSub(x, y), 5, 0), DAbs(y))

Recommended == outcome.report.recommendation.recommended

(* C8 as claimed: when neither risk-adjusted score exceeds the other by    *)
(* more than 20% (equal, zero and negative scores included), the           *)
(* recommendation is "comparable" and names neither option.                *)
C8_TieBreakComparable ==
    (Compared /\ Reported) =>
        ((~ExceedsBy20(ScoreA, ScoreB) /\ ~ExceedsBy20(ScoreB, ScoreA)) =>
            Recommended = "comparable")

(* C9 as claimed: an option is recommended exactly when its score exceeds  *)
(* the other's by more than 20%, and the recommended option is the one     *)
(* with the higher score.                                                  *)
C9_RecommendationMargin ==
    (Compared /\ Reported) =>
        /\ Recommended = args.option_a_name <=> ExceedsBy20(ScoreA, ScoreB)
        /\ Recommended = args.option_b_name <=> ExceedsBy20(ScoreB, ScoreA)
        /\ Recommended = args.option_a_name => FGt(ScoreA, ScoreB)
        /\ Recommended = args.option_b_name => FGt(ScoreB, ScoreA)

---------------------------------------------------------------------------
(* C10 *)

(* C10 as claimed: option A is named the higher one only when              *)
(* fv_a > fv_b, option B only when fv_b > fv_a, and neither when the two   *)
(* future values are equal.                                                *)
C10_WinnerByValue ==
    (Compared /\ Reported) =>
        LET fv_a == outcome.report.option_a.future_value
            fv_b == outcome.report.option_b.future_value
            line == outcome.report.comparison
        IN  /\ line.higher = args.option_a_name => RGt(fv_a, fv_b)
            /\ line.higher = args.option_b_name => RGt(fv_b, fv_a)

---------------------------------------------------------------------------
(* C11 *)

(* C11 as claimed: with expected_return 0 and a corpus above the current   *)
(* savings, the retirement calculator reports a required monthly saving    *)
(* of additional_needed / months instead of dividing by zero.              *)
C11_ZeroRateRetirement ==
    (/\ Planned
     /\ args.expected_return.n = 0
     /\ RGt(CorpusNeeded, ProjectedSavings)) =>
        /\ Reported
        /\ REq(RMul(outcome.report.monthly_contribution,
                    RInt(12 * (args.retirement_age - args.current_age))),
               RSub(CorpusNeeded, ProjectedSavings))

---------------------------------------------------------------------------
(* C12 *)

(* The sampling stride the claim states, from the arguments. *)
Stride == IF args.years <= 10 THEN 1 ELSE 5

ListedYears == [i \in 1..Len(outcome.report.yearly) |-> outcome.report.yearly[i].year]

(* C12: a growth report lists data points for exactly the years step,      *)
(* 2*step, 3*step, ... that are <= years, in strictly increasing order,    *)
(* with step 1 when years <= 10 and 5 when years > 10; the final year is   *)
(* listed only when it is a multiple of step (years 12 lists 5 and 10).    *)
C12_YearlyStride ==
    (Grown /\ Reported) =>
        /\ Len(ListedYears) = args.years \div Stride
        /\ \A i \in 1..Len(ListedYears) : ListedYears[i] = i * Stride
        /\ (\E i \in 1..Len(ListedYears) : ListedYears[i] = args.years)
              <=> args.years % Stride = 0
        /\ args.years = 12 => ListedYears = <<5, 10>>

(* A twelve-year projection whose breakdown stops at year 10. *)
C12_Witness ==
    /\ Grown
    /\ Reported
    /\ args.years = 12
    /\ ListedYears = <<5, 10>>

---------------------------------------------------------------------------
(* C13 *)

(* The request args with one more year, and with the annual rate r. *)
OneMoreYear == [args EXCEPT !.years = @ + 1]

AtRate(r) == [args EXCEPT !.annual_rate = r]

HigherRates == {r \in AnnualRates : RGt(Real(r), Real(args.annual_rate))}

(* C13 as claimed: over all legal rates, the future value of a request     *)
(* does not decrease when years increases with the rate fixed, and does    *)
(* not decrease when annual_rate increases with years fixed (wherever both *)
(* requests have a future value).                                          *)
C13_GrowthMonotoneAllRates ==
    (Grown /\ Reported) =>
        /\ growth_raises_at(OneMoreYear) = 0 =>
              RCmp(growth_total_fv(OneMoreYear), outcome.report.future_value) >= 0
        /\ \A r \in HigherRates :
              growth_raises_at(AtRate(r)) = 0 =>
                  RCmp(growth_total_fv(AtRate(r)), outcome.report.future_value) >= 0

(* C13, amended: wherever both requests have a future value, it does not   *)
(* decrease when annual_rate increases with years fixed, and it does not   *)
(* decrease when years increases provided annual_rate >= 0.                *)
C13_GrowthMonotone ==
    (Grown /\ Reported) =>
        /\ (args.annual_rate.n >= 0 /\ growth_raises_at(OneMoreYear) = 0) =>
              RCmp(growth_total_fv(OneMoreYear), outcome.report.future_value) >= 0
        /\ \A r \in HigherRates :
              growth_raises_at(AtRate(r)) = 0 =>
                  RCmp(growth_total_fv(AtRate(r)), outcome.report.future_value) >= 0

(* A request at a negative rate: a higher rate gives it a higher future    *)
(* value, one more year a lower one.                                       *)
C13_Witness ==
    /\ Grown
    /\ Reported
    /\ args.annual_rate.n < 0
    /\ \E r \in HigherRates :
          /\ growth_raises_at(AtRate(r)) = 0
          /\ RGt(growth_total_fv(AtRate(r)), outcome.report.future_value)
    /\ growth_raises_at(OneMoreYear) = 0
    /\ RGt(outcome.report.future_value, growth_total_fv(OneMoreYear))

---------------------------------------------------------------------------
(* C14, C15, C16, C17 *)

(* The decimal x of an argument against a threshold given in tenths. *)
Below(x, tenths) == 10 * x.n < tenths * x.d

Above(x, tenths) == 10 * x.n > tenths * x.d

(* The marks of the four signal lines, in the order the report lists them. *)
PeMark == outcome.report.signals[1].mark

DividendMark == outcome.report.signals[2].mark

RevenueMark == outcome.report.signals[3].mark

DebtMark == outcome.report.signals[4].mark

(* C14: the dividend-yield signal is favorable when dividend_yield > 3 and *)
(* neutral for every other value (zero and negative yields included); it   *)
(* is never a warning.                                                     *)
C14_DividendSignal ==
    Evaluated =>
        /\ Reported
        /\ Above(args.dividend_yield, 30) => DividendMark = "favorable"
        /\ ~Above(args.dividend_yield, 30) => DividendMark = "neutral"
        /\ DividendMark # "warning"

(* A stock paying no dividend, whose dividend signal is neutral. *)
C14_Witness ==
    /\ Evaluated
    /\ args.dividend_yield.n = 0
    /\ DividendMark = "neutral"

(* C15: the revenue-growth signal is favorable when revenue_growth > 10,   *)
(* neutral when 0 < revenue_growth <= 10 and warning when                  *)
(* revenue_growth <= 0; the boundaries 20, 10 and 0 fall in the lower      *)
(* tier.                                                                   *)
C15_RevenueSignal ==
    Evaluated =>
        /\ Reported
        /\ Above(args.revenue_growth, 100) => RevenueMark = "favorable"
        /\ (Above(args.revenue_growth, 0) /\ ~Above(args.revenue_growth, 100)) =>
              RevenueMark = "neutral"
        /\ ~Above(args.revenue_growth, 0) => RevenueMark = "warning"
        /\ args.revenue_growth = Dec(20, 1) =>
              outcome.report.signals[3].text = "Revenue Growth: GOOD"

(* Revenue growth of exactly 10, marked neutral. *)
C15_Witness ==
    /\ Evaluated
    /\ args.revenue_growth = Dec(10, 1)
    /\ RevenueMark = "neutral"

(* C16: the P/E signal is favorable when pe_ratio < 15, neutral when       *)
(* 15 <= pe_ratio < 25 and warning when pe_ratio >= 25; a zero or negative *)
(* P/E is favorable.                                                       *)
C16_PeSignal ==
    Evaluated =>
        /\ Reported
        /\ Below(args.pe_ratio, 150) => PeMark = "favorable"
        /\ (~Below(args.pe_ratio, 150) /\ Below(args.pe_ratio, 250)) => PeMark = "neutral"
        /\ ~Below(args.pe_ratio, 250) => PeMark = "warning"
        /\ args.pe_ratio.n <= 0 => PeMark = "favorable"

(* A P/E of exactly 15, marked neutral. *)
C16_Witness ==
    /\ Evaluated
    /\ args.pe_ratio = Dec(15, 1)
    /\ PeMark = "neutral"

(* C17: the debt-to-equity signal is favorable when debt_to_equity < 0.5,  *)
(* neutral when 0.5 <= debt_to_equity < 1.5 and warning when               *)
(* debt_to_equity >= 1.5.                                                  *)
C17_DebtSignal ==
    Evaluated =>
        /\ Reported
        /\ Below(args.debt_to_equity, 5) => DebtMark = "favorable"
        /\ (~Below(args.debt_to_equity, 5) /\ Below(args.debt_to_equity, 15)) =>
              DebtMark = "neutral"
        /\ ~Below(args.debt_to_equity, 15) => DebtMark = "warning"

(* A debt-to-equity of exactly 0.5, marked neutral. *)
C17_Witness ==
    /\ Evaluated
    /\ args.debt_to_equity = Dec(5, 10)
    /\ DebtMark = "neutral"

---------------------------------------------------------------------------
(* C18 *)

(* expected_return / 100 / 12 and 12 * years_to_retirement, from the       *)
(* arguments.                                                              *)
MonthlyReturn == RFrac(args.expected_return.n, 1200 * args.expected_return.d)

MonthsToRetirement == 12 * (args.retirement_age - args.current_age)

(* The future value of the reported monthly saving p paid every month:     *)
(* p * ((1 + monthly_rate)^months - 1) / monthly_rate.                     *)
PaymentsValue ==
    RDiv(RMul(outcome.report.monthly_contribution,
              RSub(RPow(RAdd(RInt(1), MonthlyReturn), MonthsToRetirement), RInt(1))),
         MonthlyReturn)

(* C18: whenever additional_needed > 0 and monthly_rate # 0, the required  *)
(* monthly saving p satisfies                                              *)
(* p * ((1 + monthly_rate)^months - 1) / monthly_rate = additional_needed  *)
(* with months = 12 * years_to_retirement, so that the annually compounded *)
(* current savings plus the future value of the payments equals the        *)
(* retirement corpus (in the exact arithmetic of the model).               *)
C18_PaymentSolvesAnnuity ==
    (/\ Planned
     /\ RGt(CorpusNeeded, ProjectedSavings)
     /\ args.expected_return.n # 0) =>
        /\ Reported
        /\ REq(outcome.report.additional_needed, RSub(CorpusNeeded, ProjectedSavings))
        /\ REq(PaymentsValue, outcome.report.additional_needed)
        /\ REq(RAdd(outcome.report.fv_current, PaymentsValue),
               outcome.report.retirement_corpus)
        /\ REq(outcome.report.retirement_corpus, CorpusNeeded)

(* A plan with savings, a shortfall and a positive return, so a positive   *)
(* monthly saving.                                                         *)
C18_Witness ==
    /\ Planned
    /\ Reported
    /\ args.expected_return.n > 0
    /\ args.current_savings.n > 0
    /\ RGt(CorpusNeeded, ProjectedSavings)
    /\ RGt(outcome.report.monthly_contribution, RInt(0))

---------------------------------------------------------------------------
(* C19 *)

(* The score the claim gives a risk string, by its spellings. *)
ClaimedRiskScore(risk) ==
    IF risk \in {Str("low"), Str("Low")} THEN 1
    ELSE IF risk \in {Str("medium"), Str("Medium")} THEN 2
    ELSE IF risk \in {Str("high"), Str("HIGH")} THEN 3
    ELSE 2

(* (return_pct - 2) / score, as the float division gives it. *)
ClaimedScore(return_pct, risk) ==
    FDivInt(FSub(Float(return_pct), FFromInt(2)), ClaimedRiskScore(risk))

(* C19: each option's risk string, compared case-insensitively, maps to 1  *)
(* for low, 2 for medium, 3 for high and 2 for every other string, without *)
(* failing; the risk-adjusted score is (return_pct - 2) / risk_score, so   *)
(* its divisor is one of 1, 2, 3 and never zero.                           *)
C19_RiskScore ==
    Compared =>
        /\ Reported
        /\ ClaimedRiskScore(args.option_a_risk) \in {1, 2, 3}
        /\ ClaimedRiskScore(args.option_b_risk) \in {1, 2, 3}
        /\ ScoreA = ClaimedScore(args.option_a_return, args.option_a_risk)
        /\ ScoreB = ClaimedScore(args.option_b_return, args.option_b_risk)

(* An option of risk "HIGH" against one of the unrecognized risk           *)
(* "extreme": 8% scores (8 - 2) / 3 = 2 and 7% scores (7 - 2) / 2 = 2.5.   *)
C19_Witness ==
    /\ Compared
    /\ Reported
    /\ args.option_a_risk = Str("HIGH")
    /\ args.option_a_return = Dec(8, 1)
    /\ args.option_b_risk = Str("extreme")
    /\ args.option_b_return = Dec(7, 1)
    /\ ScoreA = FFromInt(2)
    /\ ScoreB = FLit(25, 10)

---------------------------------------------------------------------------
(* C20 *)

(* C20 as claimed: every invocation ends in a report or in a structured    *)
(* failure value, never in an exception that leaves the calculator, and a  *)
(* mapping that lacks a required key ends in a failure of kind             *)
(* InvalidInput.                                                           *)
C20_StructuredErrors ==
    tool # "none" =>
        /\ outcome.kind \in {"report", "failure"}
        /\ key_error_line(tool, args) # 0 =>
              (outcome.kind = "failure" /\ outcome.failure = "InvalidInput")

---------------------------------------------------------------------------
(* C21, C22, C23 *)

(* The invocation ended in a structured failure of kind InvalidInput. *)
RejectedAsInvalid == outcome.kind = "failure" /\ outcome.failure = "InvalidInput"

(* C21 as claimed: a retirement request with retirement_age <= current_age *)
(* is rejected with InvalidInput, produces no report and never reaches the *)
(* payment formula with months <= 0.                                       *)
C21_RetirementHorizonRejected ==
    (/\ Planned
     /\ key_error_line(tool, args) = 0
     /\ args.retirement_age <= args.current_age) =>
        /\ outcome.kind # "report"
        /\ ~(outcome.kind = "raise" /\ outcome.line = 298)
        /\ RejectedAsInvalid

(* C22 as claimed: an allocation request whose age is below 0 or above 120 *)
(* is rejected with InvalidInput and produces no allocation, so no         *)
(* reported stock_pct or bond_pct is negative or above 100 because of an   *)
(* out-of-range age.                                                       *)
C22_AllocationAgeRejected ==
    (/\ Allocated
     /\ key_error_line(tool, args) = 0
     /\ (args.age < 0 \/ args.age > 120)) =>
        /\ outcome.kind # "report"
        /\ RejectedAsInvalid

(* C23 as claimed: the growth calculator fails with InvalidInput when      *)
(* years is negative or annual_rate <= -100, and returns no growth report  *)
(* for such input.                                                         *)
C23_GrowthInputRejected ==
    (/\ Grown
     /\ key_error_line(tool, args) = 0
     /\ (args.years < 0 \/ args.annual_rate.n <= (0 - 100) * args.annual_rate.d)) =>
        /\ outcome.kind # "report"
        /\ RejectedAsInvalid

---------------------------------------------------------------------------
(* C25 *)

(* C25 as claimed: for every mapping with positive integer years the       *)
(* year-by-year loop of the growth calculator performs years // step       *)
(* iterations, at most years, and the calculator then returns one report.  *)
C25_GrowthLoopBounded ==
    (Grown /\ key_error_line(tool, args) = 0 /\ args.years > 0) =>
        /\ Reported
        /\ Len(outcome.report.yearly) = args.years \div Stride
        /\ Len(outcome.report.yearly) <= args.years

---------------------------------------------------------------------------
(* C26 *)

SignalLabels ==
    <<{"P/E Ratio: ATTRACTIVE", "P/E Ratio: FAIR", "P/E Ratio: HIGH"},
      {"Dividend Yield: STRONG", "Dividend Yield: MODERATE", "Dividend Yield: LOW"},
      {"Revenue Growth: EXCELLENT", "Revenue Growth: GOOD", "Revenue Growth: MODEST",
       "Revenue Growth: DECLINING"},
      {"Debt Level: LOW", "Debt Level: MODERATE", "Debt Level: HIGH"}>>

(* C26: evaluate_stock_metrics emits exactly four signals in the order     *)
(* P/E, dividend yield, revenue growth, debt level, each tagged one of     *)
(* favorable, neutral or warning; so favorable + warning <= 4,             *)
(* warning <= 3, and favorable >= 3 and warning >= 2 never hold together.  *)
C26_SignalCounts ==
    Evaluated =>
        /\ Reported
        /\ Len(outcome.report.signals) = 4
        /\ \A i \in 1..4 :
              /\ outcome.report.signals[i].text \in SignalLabels[i]
              /\ outcome.report.signals[i].mark \in {"favorable", "neutral", "warning"}
        /\ Marked("favorable") + Marked("neutral") + Marked("warning") = 4
        /\ Marked("favorable") + Marked("warning") <= 4
        /\ Marked("warning") <= 3
        /\ ~(Marked("favorable") >= 3 /\ Marked("warning") >= 2)

(* A stock with two favorable signals and two warnings, judged CAUTIOUS. *)
C26_Witness ==
    /\ Evaluated
    /\ Reported
    /\ Marked("favorable") = 2
    /\ Marked("warning") = 2
    /\ outcome.report.overall = "CAUTIOUS"

---------------------------------------------------------------------------
(* C27 *)

(* The recommendation for the request with options A and B swapped. *)
SwappedRecommended ==
    recommendation(args.option_b_name, ScoreB, args.option_a_name, ScoreA).recommended

(* C27 as claimed: swapping option A and option B does not change which    *)
(* named option is recommended nor whether the options are declared        *)
(* comparable, and the two conditions (A's score > 1.2 x B's score, B's    *)
(* score > 1.2 x A's score) are never both true.                           *)
C27_RecommendationSymmetric ==
    (Compared /\ Reported) =>
        /\ SwappedRecommended = Recommended
        /\ ~(/\ FGt(ScoreA, FMul(ScoreB, FLit(12, 10)))
             /\ FGt(ScoreB, FMul(ScoreA, FLit(12, 10))))

---------------------------------------------------------------------------
(* C28 *)

Asked == tool = "ask"

Ended == tool = "end_conversation"

(* No conversation is open on an advisor: it holds no client (as before   *)
(* the first start_conversation), or end_conversation was the last call   *)
(* made on the client it holds.                                           *)
NoConversation(advisor) ==
    \/ client[advisor] = NoClient
    \/ clients[client[advisor]].status = "disconnect failed"

C28_Gated ==
    /\ (Asked /\ NoConversation(args.advisor)) =>
          /\ outcome.kind = "raise"
          /\ outcome.exc = "RuntimeError"
          /\ queried = NoClient
    /\ Ended => client[args.advisor] = NoClient

C28_EndAgain ==
    (tool' = "end_conversation" /\ client[args'.advisor] = NoClient) =>
        /\ outcome' = Returned(None)
        /\ UNCHANGED <<client, clients>>

(* C28 as claimed: ask raises RuntimeError and sends no query whenever no  *)
(* conversation is open (before the first start_conversation and after any *)
(* end_conversation); end_conversation always leaves client == None, and   *)
(* calling it with no client set does nothing.                             *)
C28_SessionGating == [](C28_Gated) /\ [][C28_EndAgain]_vars

---------------------------------------------------------------------------
(* C29 *)

Advised == tool = "ask_advice"

StartsWith(s, prefix) ==
    /\ Len(s) >= Len(prefix)
    /\ SubSeq(s, 1, Len(prefix)) = prefix

(* The text of the TextBlocks of the first n messages, in arrival order. *)
RECURSIVE ArrivedText(_, _)
ArrivedText(messages, n) ==
    IF n = 0 THEN <<>>
    ELSE LET content == messages[n].content
             texts == [j \in 1..Len(content) |->
                          IF content[j].type = "TextBlock" THEN content[j].text ELSE <<>>]
             Joined[j \in 0..Len(content)] ==
                 IF j = 0 THEN <<>> ELSE Joined[j - 1] \o texts[j]
         IN  ArrivedText(messages, n - 1) \o Joined[Len(content)]

ErrorResults(response) ==
    {i \in 1..Len(response.messages) :
        /\ response.messages[i].type = "ResultMessage"
        /\ response.messages[i].is_error}

ClientRaised(response) ==
    response.query # NoException \/ response.raises # NoException

Failed(response) == ErrorResults(response) # {} \/ ClientRaised(response)

(* Some text had arrived before the failure. *)
TextBeforeFailure(response) ==
    LET n == IF ErrorResults(response) = {}
             THEN Len(response.messages)
             ELSE CHOOSE i \in ErrorResults(response) :
                      \A j \in ErrorResults(response) : i <= j
    IN  ArrivedText(response.messages, n) # <<>>

(* What a session ask returns with a client set: the text, or an "Error"  *)
(* string holding none of it.                                              *)
AskReturnsTextOrError ==
    (Asked /\ client[args.advisor] # NoClient) =>
        /\ outcome.kind = "return"
        /\ IF Failed(args.response)
           THEN /\ StartsWith(outcome.value, Str("Error"))
                /\ \/ \E i \in ErrorResults(args.response) :
                         outcome.value \in
                            {Str("Error: ") \o args.response.messages[i].result,
                             Str("Error: ") \o Str("Unknown error")}
                   \/ \E e \in {args.response.query, args.response.raises} :
                         outcome.value \in
                            {Str("Error: ") \o e.str,
                             Str("Error during conversation: ") \o e.str}
           ELSE outcome.value =
                    ArrivedText(args.response.messages, Len(args.response.messages))

(* The openings of the messages ask_advice returns for an exception that *)
(* is not CLINotFoundError.                                               *)
OtherOpenings ==
    [ProcessError       |-> Str("Process error: "),
     CLIJSONDecodeError |-> Str("Failed to parse response: "),
     Exception          |-> Str("Unexpected error: ")]

(* C29, amended: with a client set, ask of either session advisor never    *)
(* raises; it returns the concatenation, in arrival order, of the text of  *)
(* every TextBlock of every AssistantMessage of the stream, unless an      *)
(* is_error ResultMessage arrives or the client raises, and then a string  *)
(* starting with "Error" and none of the text. ask_advice returns the same *)
(* concatenation or, on failure, a message without the text: it starts     *)
(* with "Error" for an is_error result and for CLINotFoundError, and with  *)
(* "Process error: ", "Failed to parse response: " or "Unexpected error: " *)
(* for ProcessError, CLIJSONDecodeError and any other exception.           *)
C29_AskResult ==
    /\ AskReturnsTextOrError
    /\ Advised =>
          /\ outcome.kind = "return"
          /\ IF ~Failed(args.response)
             THEN outcome.value =
                      ArrivedText(args.response.messages, Len(args.response.messages))
             ELSE IF ErrorResults(args.response) # {}
                     \/ args.response.raises.type = "CLINotFoundError"
             THEN /\ StartsWith(outcome.value, Str("Error"))
                  /\ TextBeforeFailure(args.response) =>
                        ~StartsWith(outcome.value, Str("a")) /\ ~StartsWith(outcome.value, Str("b"))
             ELSE /\ StartsWith(outcome.value, OtherOpenings[args.response.raises.type])
                  /\ ~StartsWith(outcome.value, Str("Error"))

(* An ask on a connected client: text arrived, then an error result, and *)
(* the answer is the error alone.                                        *)
C29_Witness ==
    /\ Asked
    /\ client[args.advisor] # NoClient
    /\ clients[client[args.advisor]].status = "connected"
    /\ ErrorResults(args.response) # {}
    /\ TextBeforeFailure(args.response)
    /\ outcome = Returned(Str("Error: ") \o Str("limit"))

(* C29 as claimed: every failed ask, ask_advice included, returns a string *)
(* starting with "Error".                                                  *)
C29_AskResultAsClaimed ==
    /\ AskReturnsTextOrError
    /\ Advised =>
          /\ outcome.kind = "return"
          /\ IF Failed(args.response)
             THEN StartsWith(outcome.value, Str("Error"))
             ELSE outcome.value =
                      ArrivedText(args.response.messages, Len(args.response.messages))

---------------------------------------------------------------------------
(* C30 *)

(* The clients an advisor made that are connected and not disconnected. *)
OpenClients(advisor) ==
    {i \in 1..Len(clients) :
        /\ clients[i].owner = advisor
        /\ clients[i].status \in {"connected", "disconnect failed"}}

(* C30 as claimed: over any sequence of start_conversation, ask and        *)
(* end_conversation calls on one advisor, at most one of its clients is    *)
(* connected and not yet disconnected at any time, and none is once an     *)
(* end_conversation has returned.                                          *)
C30_NoLeakedClient ==
    \A advisor \in Advisors :
        /\ Cardinality(OpenClients(advisor)) <= 1
        /\ (Ended /\ args.advisor = advisor /\ outcome.kind = "return") =>
              OpenClients(advisor) = {}

=============================================================================
